---- MODULE Spec2Model ----
(***************************************************************************)
(* The user session controller of src/lib/contexts/user-context.tsx: the   *)
(* UserProvider state (user, isLoading), the fe-chat-session cookie, the    *)
(* four exposed operations, the initial load, and the two effects of the   *)
(* useUser hook.  JavaScript runs each synchronous segment to completion   *)
(* and drains the continuations that wait on no I/O (an await of a value   *)
(* that is already there) before any other event is handled, so an action  *)
(* below runs an operation from one network suspension to the next.        *)
(***************************************************************************)
EXTENDS Naturals, Sequences, FiniteSets, TLC

\* At most this many operations are outstanding at once.
MaxOps == 2

\* Session tokens (non-empty strings); NoToken is the empty or absent one:
\* no cookie, no session parameter, no override argument.
Tokens == {"t1", "t2"}
NoToken == ""
TokenArgs == Tokens \cup {NoToken}

\* User | null
NoUser == "null"

\* The user the IAM server reports for a session token (GET /api/account).
ServerUser(t) == IF t = "t1" THEN "u1" ELSE "u2"

\* Outcomes of GET /api/account: a 2xx body with a user, a 2xx body without
\* one, a 2xx body that does not parse, a non-2xx status, a rejected fetch.
AccountResps == {"ok_user", "ok_nouser", "bad_json", "status_err", "net_err"}

\* Outcomes of POST /api/signout: 200, 500, a rejected fetch.
SignoutResps == {"ok", "status_err", "net_err"}

\* The operations that resolve a token into a user.
Resolutions == {"init", "refresh", "adopt"}

VARIABLES
    user,        \* useState<User | null>
    isLoading,   \* useState(true)
    cookie,      \* the fe-chat-session cookie, NoToken when absent
    ops,         \* the outstanding operations, in the order they were started
    url,         \* the session query parameter of the page, NoToken when absent
    nav,         \* the navigation requested from the router and not yet committed
    mounted,     \* the provider's mount effect has run
    urlAdopted,  \* useUser has called setUserFromSession for the token now in the url
    alone,       \* one operation is outstanding and none other was since it started
    newestOut,   \* the operation started most recently is still outstanding
    prevRefresh, \* the refreshUser() that completed immediately before, if any
    event        \* what the last step did (completion of an operation, login, ...)

vars == <<user, isLoading, cookie, ops, url, nav, mounted, urlAdopted, alone,
          newestOut, prevRefresh, event>>

NoPred == [valid |-> FALSE, session |-> NoToken, resp |-> "none", user |-> NoUser]

NoEvent == [type |-> "none", kind |-> "none", tok |-> NoToken, session |-> NoToken,
            resp |-> "none", reqs |-> 0, overlapped |-> FALSE, stale |-> FALSE,
            escaped |-> FALSE, userBefore |-> NoUser, cookieBefore |-> NoToken,
            loadingBefore |-> FALSE, again |-> FALSE, loggedOut |-> FALSE,
            oldest |-> FALSE, strip |-> FALSE,
            pred |-> NoPred]

(***************************************************************************)
(* fetchUser                                                               *)
(***************************************************************************)

\* const session = sessionToken || (await getCookie('fe-chat-session'))
EffectiveToken(tok, ck) == IF tok # NoToken THEN tok ELSE ck

AlwaysRequest(session) == TRUE

\* if (!session) return null;  -- otherwise the request is issued
NeedsRequest(session) == session # NoToken

\* The try body of fetchUser raises: fetch rejects, !res.ok, or res.json() rejects.
Throws(resp) == resp \in {"bad_json", "status_err", "net_err"}

fetchUserIgnoreStatus(session, resp) ==
    IF resp \in {"ok_user", "status_err"} THEN ServerUser(session) ELSE NoUser

\* The value fetchUser returns; resp = "none" when no request was issued.
fetchUser(session, resp) ==
    IF resp = "none" THEN NoUser
    ELSE IF Throws(resp) THEN NoUser
    ELSE IF resp = "ok_user" THEN ServerUser(session)
    ELSE NoUser

CommitToggle(prev, result, stale) == IF prev # NoUser THEN NoUser ELSE result

CommitIfLatest(prev, result, stale) == IF stale THEN prev ELSE result

\* setUser(userData): unconditional, whatever user was and whether or not an
\* operation was started after this one (stale).
Commit(prev, result, stale) == result

NoFinally(kind, cur) == cur

\* finally { setIsLoading(false) }
FinallyLoading(kind, cur) == FALSE

KeepCookie(ck, tok) == ck

\* await setCookie('fe-chat-session', session)
PersistToken(ck, tok) == tok

\* logout reaches setUser(null)/setCookie(...) unless the awaited fetch rejects.
LogoutClears(resp) == resp # "net_err"

LoginSetsLoading(cur) == TRUE

LoginClearsLoading(cur) == FALSE

\* login leaves isLoading alone
LoginLoading(cur) == cur

(***************************************************************************)
(* Initial state: the provider is constructed, no effect has run yet.      *)
(***************************************************************************)

Init ==
    /\ user = NoUser
    /\ isLoading = TRUE
    /\ cookie \in TokenArgs
    /\ url \in TokenArgs
    /\ ops = <<>>
    /\ nav = "none"
    /\ mounted = FALSE
    /\ urlAdopted = FALSE
    /\ alone = FALSE
    /\ newestOut = FALSE
    /\ prevRefresh = NoPred
    /\ event = NoEvent

(***************************************************************************)
(* The last segment of an operation                                        *)
(***************************************************************************)

\* Whether an exception leaves the operation: fetchUser catches whatever its
\* try body raises, and every operation has its own catch and no rethrow.
Escapes(kind, resp) == FALSE

\* if (session) { await fetch(signout) }
LogoutNotifies(session) == session # NoToken

\* The token the operation works with.  setUserFromSession persists its
\* argument first (ck is the cookie after that), then calls fetchUser(tok).
SessionOf(kind, tok, ck) == IF kind = "logout" THEN ck ELSE EffectiveToken(tok, ck)

\* Whether the operation issues its request.
Requests(kind, session) ==
    IF kind = "logout" THEN LogoutNotifies(session) ELSE NeedsRequest(session)

\* A logout has cleared user and cookie: the adoptions started before it and
\* still outstanding (among the first older of s) have seen a whole logout go by.
MarkLoggedOut(s, older) ==
    [j \in 1..Len(s) |-> IF j <= older /\ s[j].kind = "adopt"
                         THEN [s[j] EXCEPT !.loggedOut = TRUE]
                         ELSE s[j]]

\* The segment that ends operation o: its request answered resp (reqs = 1) or
\* none was issued (resp = "none", reqs = 0).  rest: the operations still
\* outstanding; ck, loading: cookie and isLoading when the segment begins;
\* stale: o is not the operation started most recently; lonely: o ran alone;
\* older: how many of rest were started before o.
Finish(o, rest, older, ck, loading, resp, reqs, stale, lonely) ==
    LET isLogout == o.kind = "logout"
        clears == isLogout /\ LogoutClears(resp)
        result == fetchUser(o.session, resp)
        user2 == IF isLogout
                 THEN (IF clears THEN NoUser ELSE user)
                 ELSE Commit(user, result, stale)
        solo == o.kind = "refresh" /\ o.tok = NoToken /\ lonely
    IN  /\ user' = user2
        /\ cookie' = IF clears THEN NoToken ELSE ck
        /\ \E redirect \in (IF clears THEN BOOLEAN ELSE {FALSE}) :
               nav' = IF redirect THEN "replace" ELSE nav
        /\ isLoading' = FinallyLoading(o.kind, loading)
        /\ ops' = IF clears THEN MarkLoggedOut(rest, older) ELSE rest
        /\ alone' = FALSE
        /\ newestOut' = (rest # <<>> /\ newestOut /\ stale)
        /\ prevRefresh' = IF solo
                          THEN [valid |-> TRUE, session |-> o.session,
                                resp |-> resp, user |-> user2]
                          ELSE NoPred
        /\ event' = [type |-> "completed", kind |-> o.kind, tok |-> o.tok,
                     session |-> o.session, resp |-> resp, reqs |-> reqs,
                     overlapped |-> ~lonely, stale |-> stale,
                     escaped |-> Escapes(o.kind, resp),
                     userBefore |-> user, cookieBefore |-> cookie,
                     loadingBefore |-> loading, again |-> FALSE,
                     loggedOut |-> o.loggedOut,
                     oldest |-> (reqs = 1 /\ older = 0), strip |-> FALSE,
                     pred |-> IF solo THEN prevRefresh ELSE NoPred]
        /\ UNCHANGED <<url, urlAdopted>>

(***************************************************************************)
(* Starting an operation                                                   *)
(***************************************************************************)

StartedUserLoggedOut(cur, kind) == IF kind = "logout" THEN NoUser ELSE cur

\* user after the first segment: no operation calls setUser before its request.
StartedUser(cur, kind) == cur

StartedCookieAnyToken(ck, kind, tok) == IF tok # NoToken THEN tok ELSE ck

\* The cookie after the first segment: only setUserFromSession writes it.
StartedCookie(ck, kind, tok) == IF kind = "adopt" THEN PersistToken(ck, tok) ELSE ck

NewOp(kind, tok, ck) ==
    [kind |-> kind, tok |-> tok,
     session |-> SessionOf(kind, tok, StartedCookie(ck, kind, tok)),
     loggedOut |-> FALSE]

\* refreshUser / setUserFromSession / logout / initializeUser are called:
\* setIsLoading(true), then on to the request, or to the end when there is
\* no token to send.
Start(kind, tok) ==
    LET o == NewOp(kind, tok, cookie)
        ck == StartedCookie(cookie, kind, tok)
    IN  IF Requests(kind, o.session)
        THEN /\ Len(ops) < MaxOps
             /\ isLoading' = TRUE
             /\ cookie' = ck
             /\ ops' = Append(ops, o)
             /\ alone' = (ops = <<>>)
             /\ newestOut' = TRUE
             /\ prevRefresh' = IF kind = "refresh" /\ tok = NoToken /\ ops = <<>>
                               THEN prevRefresh ELSE NoPred
             /\ event' = NoEvent
             /\ user' = StartedUser(user, kind)
             /\ UNCHANGED <<url, nav, urlAdopted>>
        ELSE Finish(o, ops, Len(ops), ck, TRUE, "none", 0, FALSE, ops = <<>>)

RefreshUser ==
    /\ mounted
    /\ \E tok \in TokenArgs : Start("refresh", tok)
    /\ UNCHANGED mounted

SetUserFromSession ==
    /\ mounted
    /\ \E tok \in Tokens : Start("adopt", tok)
    /\ UNCHANGED mounted

Logout ==
    /\ mounted
    /\ Start("logout", NoToken)
    /\ UNCHANGED mounted

\* router.push(IAM sign-in page); nothing else.
Login ==
    /\ mounted
    /\ nav' = "signin"
    /\ isLoading' = LoginLoading(isLoading)
    /\ event' = [NoEvent EXCEPT !.type = "login", !.kind = "login",
                                !.overlapped = (ops # <<>>),
                                !.userBefore = user, !.cookieBefore = cookie,
                                !.loadingBefore = isLoading]
    /\ UNCHANGED <<user, cookie, ops, url, mounted, urlAdopted, alone, newestOut,
                   prevRefresh>>

RemoveAt(s, i) == SubSeq(s, 1, i - 1) \o SubSeq(s, i + 1, Len(s))

\* The request of operation i returns and its continuation runs to the end.
RespondAt(i) ==
    /\ mounted
    /\ i \in 1..Len(ops)
    /\ \E resp \in (IF ops[i].kind = "logout" THEN SignoutResps ELSE AccountResps) :
            Finish(ops[i], RemoveAt(ops, i), i - 1, cookie, isLoading, resp, 1,
                   ~(newestOut /\ i = Len(ops)), alone)
    /\ UNCHANGED mounted

Respond == \E i \in 1..MaxOps : RespondAt(i)

(***************************************************************************)
(* Mounting and the effects of useUser                                     *)
(***************************************************************************)

\* useUser effect 1: session && session !== getCookie('fe-chat-session')
EffectAdopts(session, ck) == session # NoToken /\ session # ck

\* useUser effect 2: session && !context.isLoading, with the rendered isLoading
EffectStrips(session, loading) == session # NoToken /\ ~loading

AdoptEvent ==
    [NoEvent EXCEPT !.type = "useUserAdopt", !.kind = "adopt", !.tok = url,
                    !.cookieBefore = cookie, !.userBefore = user,
                    !.again = urlAdopted]

\* Client render: the consumer's effects run first (isLoading is still the
\* initial true, so effect 2 does nothing), then the provider's mount effect
\* starts initializeUser, which reads the cookie effect 1 may have written.
MountClient ==
    /\ ~mounted
    /\ mounted' = TRUE
    /\ IF EffectAdopts(url, cookie)
       THEN /\ 2 <= MaxOps
            /\ cookie' = StartedCookie(cookie, "adopt", url)
            /\ ops' = <<NewOp("adopt", url, cookie), NewOp("init", NoToken, cookie')>>
            /\ isLoading' = TRUE
            /\ urlAdopted' = TRUE
            /\ alone' = FALSE
            /\ newestOut' = TRUE
            /\ event' = AdoptEvent
            /\ user' = StartedUser(StartedUser(user, "adopt"), "init")
            /\ UNCHANGED <<url, nav, prevRefresh>>
       ELSE Start("init", NoToken)

\* Hydration: the provider's mount effect runs while the consumer, inside
\* Suspense, has not committed; its effects run at a later Render.
MountHydrate ==
    /\ ~mounted
    /\ mounted' = TRUE
    /\ Start("init", NoToken)

\* The consumer commits a render and the effects of useUser run: effect 1
\* with the cookie as it is, then effect 2 with the isLoading that was rendered.
Render ==
    /\ mounted
    /\ LET adopt == EffectAdopts(url, cookie)
           strip == EffectStrips(url, isLoading)
       IN  /\ adopt \/ (strip /\ nav # "replace")
           /\ adopt => Len(ops) < MaxOps
           /\ ops' = IF adopt THEN Append(ops, NewOp("adopt", url, cookie)) ELSE ops
           /\ cookie' = IF adopt THEN StartedCookie(cookie, "adopt", url) ELSE cookie
           /\ isLoading' = IF adopt THEN TRUE ELSE isLoading
           /\ alone' = IF adopt THEN ops = <<>> ELSE alone
           /\ newestOut' = IF adopt THEN TRUE ELSE newestOut
           /\ urlAdopted' = IF adopt THEN TRUE ELSE urlAdopted
           /\ prevRefresh' = IF adopt THEN NoPred ELSE prevRefresh
           /\ nav' = IF strip THEN "replace" ELSE nav
           /\ event' = IF adopt THEN [AdoptEvent EXCEPT !.strip = strip]
                       ELSE [NoEvent EXCEPT !.type = "strip", !.strip = strip]
           /\ user' = IF adopt THEN StartedUser(user, "adopt") ELSE user
           /\ UNCHANGED <<url, mounted>>

\* The page is navigated to a url carrying another session token.
UrlArrive ==
    /\ mounted
    /\ \E t \in Tokens :
        /\ t # url
        /\ url' = t
    /\ urlAdopted' = FALSE
    /\ event' = NoEvent
    /\ UNCHANGED <<user, isLoading, cookie, ops, nav, mounted, alone, newestOut,
                   prevRefresh>>

\* router.replace('/') or router.replace(redirectUrl) commits: the session
\* parameter is gone from the url.
NavCommit ==
    /\ nav = "replace"
    /\ nav' = "none"
    /\ url' = NoToken
    /\ urlAdopted' = FALSE
    /\ event' = NoEvent
    /\ UNCHANGED <<user, isLoading, cookie, ops, mounted, alone, newestOut, prevRefresh>>

Next ==
    \/ MountClient
    \/ MountHydrate
    \/ Render
    \/ RefreshUser
    \/ SetUserFromSession
    \/ Logout
    \/ Login
    \/ Respond
    \/ UrlArrive
    \/ NavCommit

Spec == Init /\ [][Next]_vars

\* The programs that call refreshUser only without a token override.
RefreshUserNoOverride ==
    /\ mounted
    /\ Start("refresh", NoToken)
    /\ UNCHANGED mounted

NextNoOverride ==
    \/ MountClient
    \/ MountHydrate
    \/ Render
    \/ RefreshUserNoOverride
    \/ SetUserFromSession
    \/ Logout
    \/ Login
    \/ Respond
    \/ UrlArrive
    \/ NavCommit

SpecNoOverride == Init /\ [][NextNoOverride]_vars

\* Every issued HTTP request eventually returns: the request of the operation
\* at each position of ops is answered if it stays outstanding.
FairSpec == Spec /\ \A i \in 1..MaxOps : WF_vars(RespondAt(i))

(***************************************************************************)
(* Properties                                                              *)
(***************************************************************************)

Completed(k) == event.type = "completed" /\ event.kind = k

CompletedResolution == event.type = "completed" /\ event.kind \in Resolutions

\* What a resolution of session that was answered resp is to store in user.
Expected(session, resp) == IF resp = "ok_user" THEN ServerUser(session) ELSE NoUser

\* C1: whenever logout() completes, user is absent and the cookie is cleared,
\* whatever the signout request did (200, 500, transport error, or no request
\* because no token was stored).
C1_LogoutAlwaysClears ==
    Completed("logout") => (user = NoUser /\ cookie = NoToken)

\* C2: setUserFromSession(T) that ran alone and got a successful account
\* response leaves the cookie equal to T and user equal to the user the server
\* reports for T, or absent when the response carries no user.
C2_AdoptionStoresTokenAndUser ==
    (/\ Completed("adopt")
     /\ ~event.overlapped
     /\ event.resp \in {"ok_user", "ok_nouser"})
    => (/\ cookie = event.tok
        /\ user = IF event.resp = "ok_user" THEN ServerUser(event.tok) ELSE NoUser)

\* C2 witness: an adoption that ran alone ends with the server's user for its
\* token, replacing another user.
C2_Witness ==
    /\ Completed("adopt")
    /\ ~event.overlapped
    /\ event.resp = "ok_user"
    /\ event.userBefore \notin {NoUser, ServerUser(event.tok)}
    /\ cookie = event.tok
    /\ user = ServerUser(event.tok)

\* C3: isLoading is true whenever at least one operation (initial load,
\* refreshUser, setUserFromSession, logout) has started and not completed.
C3_LoadingWhileOutstanding ==
    ops # <<>> => isLoading

\* C4: an exposed operation that runs alone has isLoading true in every state
\* between its start and its completion, and false once it has completed;
\* login, run alone from isLoading false, leaves it false.
C4_LoadingExactlyWhileAlone ==
    /\ (alone /\ ops[1].kind \in {"refresh", "adopt", "logout"}) => isLoading
    /\ (/\ event.type = "completed"
        /\ event.kind \in {"refresh", "adopt", "logout"}
        /\ ~event.overlapped) => ~isLoading
    /\ (/\ event.type = "login"
        /\ ~event.overlapped
        /\ ~event.loadingBefore) => ~isLoading

\* C4 witness: a refreshUser that waited for its request alone has completed
\* and isLoading, true while it waited, is false.
C4_Witness ==
    /\ Completed("refresh")
    /\ ~event.overlapped
    /\ event.reqs = 1
    /\ event.loadingBefore
    /\ ~isLoading

\* C5: with no token in the cookie and no override, the initial load and
\* refreshUser() complete with user absent and without any HTTP request.
C5_NoTokenNoRequest ==
    (/\ event.type = "completed"
     /\ event.kind \in {"init", "refresh"}
     /\ event.tok = NoToken
     /\ event.session = NoToken)
    => (user = NoUser /\ event.reqs = 0)

\* C5 witness: refreshUser() found no token, sent nothing, and cleared a user.
C5_Witness ==
    /\ Completed("refresh")
    /\ event.tok = NoToken
    /\ event.session = NoToken
    /\ event.cookieBefore = NoToken
    /\ event.userBefore # NoUser
    /\ event.reqs = 0
    /\ user = NoUser

\* C6: when GET /api/account answers with a non-success status or fails in
\* transport, the initial load, refreshUser and setUserFromSession complete
\* normally with user absent, whatever user was before.
C6_FailureMeansNoUser ==
    (CompletedResolution /\ event.resp \in {"status_err", "net_err"})
    => (user = NoUser /\ ~event.escaped)

\* C6 witness: a resolution answered with a non-success status drops the user
\* that was there.
C6_Witness ==
    /\ CompletedResolution
    /\ event.resp = "status_err"
    /\ event.userBefore # NoUser
    /\ user = NoUser

\* C7: refreshUser() called twice in immediate succession, with the same
\* stored token and the same answer of the server, leaves the same user after
\* the second call as after the first.
C7_RefreshIdempotent ==
    (/\ Completed("refresh")
     /\ event.tok = NoToken
     /\ ~event.overlapped
     /\ event.pred.valid
     /\ event.pred.session = event.session
     /\ event.pred.resp = event.resp)
    => user = event.pred.user

\* C7 witness: two successive refreshUser() calls both answered with the user
\* of the stored token.
C7_Witness ==
    /\ Completed("refresh")
    /\ event.tok = NoToken
    /\ ~event.overlapped
    /\ event.pred.valid
    /\ event.pred.session = event.session
    /\ event.pred.resp = "ok_user"
    /\ event.resp = "ok_user"
    /\ user = ServerUser(event.session)

C9_UseUserAdoptsOnce ==
    event.type = "useUserAdopt"
    => (/\ event.tok # NoToken
        /\ event.tok # event.cookieBefore
        /\ ~event.again)

\* C10: when resolutions overlap, none is cancelled, and once all have
\* completed user is the result of the one that completed last, also when it
\* was not the one started last.
C10_LastCompletionWins ==
    (CompletedResolution /\ event.overlapped /\ ops = <<>>)
    => user = Expected(event.session, event.resp)

\* C11: a logout that starts and completes while setUserFromSession(T) awaits
\* its response does not stop the adoption: when the server answers with the
\* user of T, that user is stored, after the logout (the witness is the run the
\* claim says exists, ending with the user of T and no cookie).
C11_AdoptionOverwritesLogout ==
    (Completed("adopt") /\ event.loggedOut /\ event.resp = "ok_user")
    => user = ServerUser(event.tok)

\* C11 witness: the adoption completes after a logout that ran wholly inside
\* it; user is the user of T, the cookie is cleared and nothing is outstanding.
C11_Witness ==
    /\ Completed("adopt")
    /\ event.loggedOut
    /\ event.resp = "ok_user"
    /\ event.userBefore = NoUser
    /\ user = ServerUser(event.tok)
    /\ cookie = NoToken
    /\ ops = <<>>

\* C12: when every issued request eventually returns, every started operation
\* eventually completes, and whenever nothing is outstanding isLoading is false.
\* Operations leave ops only by completing and none is ever placed ahead of an
\* outstanding one, so "whenever an operation is outstanding, the oldest
\* outstanding one eventually completes" gives completion of each of them.
C12_EveryOperationCompletes ==
    /\ [](mounted /\ ops = <<>> => ~isLoading)
    /\ (ops # <<>>) ~> (event.type = "completed" /\ event.oldest)

\* C12 witness: the oldest operation, which overlapped another, completed on a
\* transport error; nothing is outstanding any more and isLoading is false.
C12_Witness ==
    /\ event.type = "completed"
    /\ event.oldest
    /\ event.overlapped
    /\ event.resp = "net_err"
    /\ ops = <<>>
    /\ ~isLoading

\* C13: nothing but the completion of an operation resets isLoading. A step
\* that issues a request leaves isLoading true, and every later step that is not
\* the completion of some operation keeps it true: there is no timeout, and
\* login, the effects of useUser, URL changes and navigation do not reset it.
C13_OnlyCompletionResetsLoading ==
    [][/\ (Len(ops') > Len(ops)) => isLoading'
       /\ (isLoading /\ event'.type # "completed") => isLoading']_vars

\* C13 witness: one operation awaits its response, nothing else is outstanding,
\* a step that is not a completion has just happened, isLoading is still true.
C13_Witness ==
    /\ event.type = "login"
    /\ alone
    /\ Len(ops) = 1
    /\ event.loadingBefore
    /\ isLoading

\* C14: useUser strips the token from the URL (router.replace('/')) only when
\* no adoption of that token is still awaiting its response.
C14_StripOnlyAfterAdoption ==
    event.strip =>
        ~ \E i \in 1..Len(ops) : ops[i].kind = "adopt" /\ ops[i].tok = url

\* C15: user changes only in the step that completes an operation, which is
\* the one step after that operation's request returned (or was skipped); the
\* step that starts an operation and issues its request leaves user unchanged,
\* and so does every step while the request is outstanding that is not the
\* completion of an operation.
C15_UserWrittenOnlyOnCompletion ==
    [][/\ (Len(ops') > Len(ops)) => user' = user
       /\ (user' # user) => event'.type = "completed"]_vars

\* C15 witness: a refreshUser that ran alone and issued a request has completed;
\* the user present when it started was still there when the response came and
\* the completion replaced it.
C15_Witness ==
    /\ Completed("refresh")
    /\ ~event.overlapped
    /\ event.reqs = 1
    /\ event.userBefore # NoUser
    /\ user # event.userBefore

\* u is absent, or c is a stored token and u is the user the server has for it.
Consistent(u, c) == u # NoUser => (c # NoToken /\ u = ServerUser(c))

\* C16 as stated: in every quiescent state a present user is the user of the
\* stored token (refreshUser is called without override in SpecNoOverride).
C16_QuiescentUserMatchesToken ==
    (mounted /\ ops = <<>>) => Consistent(user, cookie)

\* C16 amended: the same for the quiescent states reached by operations none of
\* which overlaps another. Stated as the step of the induction over such a
\* sequence: an operation that ran alone ends in a state where a present user
\* is the user of the stored token (a logout, which may leave both as they
\* were, when that held before it); it holds initially, user being absent.
C16_QuiescentAfterSoloOperation ==
    (/\ event.type = "completed"
     /\ ~event.overlapped
     /\ ops = <<>>
     /\ event.kind = "logout" => Consistent(event.userBefore, event.cookieBefore))
    => Consistent(user, cookie)

\* C16 witness: a logout that ran alone failed in transport and left the user
\* and the stored token, which still match.
C16_Witness ==
    /\ Completed("logout")
    /\ ~event.overlapped
    /\ event.resp = "net_err"
    /\ ops = <<>>
    /\ user # NoUser
    /\ user = ServerUser(cookie)

\* C17: the stored token changes only in the step that starts a
\* setUserFromSession, which stores that call's token, and in the step that
\* completes a logout, which clears it; the completion of the initial load or
\* of a refreshUser (with or without override, whatever the response) and
\* login leave it as it was.
C17_CookieWriters ==
    [][/\ (cookie' # cookie) =>
            \/ \E i \in (Len(ops) + 1)..Len(ops') :
                    ops'[i].kind = "adopt" /\ ops'[i].tok = cookie'
            \/ event'.type = "completed" /\ event'.kind = "logout"
                    /\ cookie' = NoToken
       /\ (\/ event'.type = "completed" /\ event'.kind \in {"init", "refresh"}
           \/ event'.type = "login") => cookie' = cookie]_vars

\* C17 witness: a refreshUser with a token override that ran alone has failed;
\* the stored token is still the other token.
C17_Witness ==
    /\ Completed("refresh")
    /\ ~event.overlapped
    /\ event.tok # NoToken
    /\ event.resp = "status_err"
    /\ cookie \notin {NoToken, event.tok}
    /\ cookie = event.cookieBefore

FailedAdoption ==
    Completed("adopt") /\ event.resp \in {"status_err", "net_err"}

\* C18 as stated: a setUserFromSession(T) whose resolution failed completes
\* with user absent and the stored token still T.
C18_FailedAdoptionKeepsToken ==
    FailedAdoption => (user = NoUser /\ cookie = event.tok)

\* C18 amended: the step that starts setUserFromSession(T) stores T whatever
\* was stored; when the resolution fails the operation completes with user
\* absent and its completion leaves the stored token as it found it, which is
\* T when no other operation overlapped the adoption.
C18_FailedAdoptionNoRollback ==
    /\ [][\A i \in (Len(ops) + 1)..Len(ops') :
             ops'[i].kind = "adopt" => cookie' = ops'[i].tok]_vars
    /\ [](FailedAdoption =>
             /\ user = NoUser
             /\ cookie = event.cookieBefore
             /\ ~event.overlapped => cookie = event.tok)

\* C18 witness: an adoption that ran alone failed in transport; the user of
\* another token, present before, is gone and the stored token is T.
C18_Witness ==
    /\ FailedAdoption
    /\ ~event.overlapped
    /\ event.resp = "net_err"
    /\ event.userBefore \notin {NoUser, ServerUser(event.tok)}
    /\ user = NoUser
    /\ cookie = event.tok

\* C10 witness: the resolution that completes last was started before another
\* one, which had already written a different user.
C10_Witness ==
    /\ CompletedResolution
    /\ event.overlapped
    /\ event.stale
    /\ ops = <<>>
    /\ event.resp = "ok_user"
    /\ event.userBefore \notin {NoUser, ServerUser(event.session)}
    /\ user = ServerUser(event.session)

====
